---- MODULE Spec2Model ----
(***************************************************************************)
(* The scoring engine: the scheduler thread (_scheduler_loop and           *)
(* _run_one_round of app.py), the shared status dict _state under _lock,   *)
(* the dispatcher run_check of checks.py, the SQLite result log of         *)
(* database.py, and one request-handling thread serving index, api_status *)
(* and api_history.  Every statement that touches shared state is a step;  *)
(* labels "Lnn" are lines of app.py, "Dnn" lines of database.py.           *)
(***************************************************************************)
EXTENDS Integers, Sequences, FiniteSets, TLC

\* ------------------------------------------------------------------ bounds
\* Number of configured services in a modelled configuration.
NumServices == 3
\* Number of rounds the scheduler loop is followed for.
MaxRounds == 1
\* config.CHECK_INTERVAL is 60 seconds; the countdown is walked with a
\* shorter interval, every value of which is handled by the same statements.
CHECK_INTERVAL == 2

\* ------------------------------------------------------------ config.py
\* _build_services(): id, points and check_type of the ten services, in order.
ConfigServices ==
    << [id |-> "http",     points |-> 100, check_type |-> "http"],
       [id |-> "ftp",      points |-> 50,  check_type |-> "ftp"],
       [id |-> "smtp",     points |-> 75,  check_type |-> "smtp"],
       [id |-> "imap",     points |-> 50,  check_type |-> "banner"],
       [id |-> "pop3",     points |-> 50,  check_type |-> "banner"],
       [id |-> "dns",      points |-> 100, check_type |-> "dns"],
       [id |-> "mysql",    points |-> 75,  check_type |-> "mysql"],
       [id |-> "smb",      points |-> 50,  check_type |-> "tcp"],
       [id |-> "ldap",     points |-> 100, check_type |-> "tcp"],
       [id |-> "kerberos", points |-> 100, check_type |-> "tcp"] >>

\* config.SERVICES: the model runs NumServices consecutive entries of the
\* list, ending with "ldap", so that checkers with a catch-all handler and
\* raw-TCP checks (which have none) stand in one round.
SERVICES ==
    SubSeq(ConfigServices, Len(ConfigServices) - NumServices,
           Len(ConfigServices) - 1)

RECURSIVE SumPoints(_)
SumPoints(svcs) ==
    IF svcs = << >> THEN 0 ELSE Head(svcs).points + SumPoints(Tail(svcs))

\* ------------------------------------------------------------ checks.py
\* What a probed host can do to one check: answer properly ("ok"), refuse the
\* connection ("refused"), or make the client library raise something that is
\* not an OSError, such as a ValueError or OverflowError out of the socket
\* layer ("fault").  The rounds of the scheduler are run over the first and
\* the last of these.
Outcomes == {"ok", "fault"}

Returned(up, message) == [raised |-> FALSE, up |-> up, message |-> message]
Raised == [raised |-> TRUE, up |-> FALSE, message |-> "exc"]

\* check_tcp catches socket.timeout, ConnectionRefusedError and OSError only.
check_tcp(out) ==
    CASE out = "ok"      -> Returned(TRUE, "Port open")
      [] out = "refused" -> Returned(FALSE, "Connection refused")
      [] OTHER           -> Raised

\* The other checkers end in "except Exception as e: return False, str(e)".
check_http(out) ==
    CASE out = "ok"      -> Returned(TRUE, "HTTP 200 OK")
      [] out = "refused" -> Returned(FALSE, "URL error")
      [] OTHER           -> Returned(FALSE, "str(e)")

check_ftp(out) ==
    CASE out = "ok"      -> Returned(TRUE, "Anonymous login OK")
      [] out = "refused" -> Returned(FALSE, "FTP error")
      [] OTHER           -> Returned(FALSE, "str(e)")

check_smtp(out) ==
    CASE out = "ok"      -> Returned(TRUE, "EHLO accepted")
      [] out = "refused" -> Returned(FALSE, "SMTP error")
      [] OTHER           -> Returned(FALSE, "str(e)")

check_banner(out) ==
    CASE out = "ok"      -> Returned(TRUE, "Banner")
      [] out = "refused" -> Returned(FALSE, "Connection refused")
      [] OTHER           -> Returned(FALSE, "str(e)")

\* Mutant: check_mysql without its last except clause.
check_mysqlNoCatchAll(out) ==
    CASE out = "ok"      -> Returned(TRUE, "MySQL/MariaDB")
      [] out = "refused" -> Returned(FALSE, "Connection refused")
      [] OTHER           -> Raised

check_mysql(out) ==
    CASE out = "ok"      -> Returned(TRUE, "MySQL/MariaDB")
      [] out = "refused" -> Returned(FALSE, "Connection refused")
      [] OTHER           -> Returned(FALSE, "str(e)")

check_dns(out) ==
    CASE out = "ok"      -> Returned(TRUE, "Resolved")
      [] out = "refused" -> Returned(FALSE, "DNS query failed")
      [] OTHER           -> Returned(FALSE, "DNS query failed")

\* Mutant: an unknown check_type falls back on the raw TCP check.
run_checkDefaultsToTcp(service, out) ==
    CASE service.check_type = "http"   -> check_http(out)
      [] service.check_type = "ftp"    -> check_ftp(out)
      [] service.check_type = "smtp"   -> check_smtp(out)
      [] service.check_type = "banner" -> check_banner(out)
      [] service.check_type = "mysql"  -> check_mysql(out)
      [] service.check_type = "dns"    -> check_dns(out)
      [] OTHER -> check_tcp(out)

\* run_check: dispatch on check_type, no exception handler of its own.
run_check(service, out) ==
    CASE service.check_type = "tcp"    -> check_tcp(out)
      [] service.check_type = "http"   -> check_http(out)
      [] service.check_type = "ftp"    -> check_ftp(out)
      [] service.check_type = "smtp"   -> check_smtp(out)
      [] service.check_type = "banner" -> check_banner(out)
      [] service.check_type = "mysql"  -> check_mysql(out)
      [] service.check_type = "dns"    -> check_dns(out)
      [] OTHER -> Returned(FALSE, "Unknown check type")


\* ------------------------------------------------------------- variables
VARIABLES
    state,           \* app._state
    lock,            \* app._lock: Free, or the thread that holds it
    now,             \* wall clock, in seconds
    db,              \* committed rows of check_rounds and service_checks
    txn,             \* rows written by the open, uncommitted transaction
    pc,              \* scheduler thread: next statement
    rounds,          \* scheduler thread: iterations of "while True" begun
    i,               \* _run_one_round: 1-based position of svc in SERVICES
    results,         \* _run_one_round: results
    round_score,     \* _run_one_round: round_score
    probe,           \* what each probed host did in the current round
    exc,             \* _scheduler_loop: exc, as the function that raised it
    remaining,       \* _scheduler_loop: countdown loop variable
    round_id,        \* save_round: round_id
    opc,             \* request thread: next statement
    state_snapshot,  \* index / api_status: state_snapshot
    results_copy,    \* _build_services_display / api_status: results
    stats,           \* _build_services_display: stats
    response,        \* what the request handler returns
    call,            \* a function of checks.py or database.py called on its own: its arguments
    ret,             \* what that call returned, NoCall before it returns
    heap             \* the dicts reached through references, by address

schedVars == << pc, rounds, i, results, round_score, probe, exc, remaining, round_id >>
obsVars == << opc, state_snapshot, results_copy, stats, response >>
callVars == << call, ret >>
vars == << state, lock, now, db, txn, schedVars, obsVars, callVars, heap >>

\* Python's None, as the value of last_check_time before the first round.
None == 0
Free == "free"
NoExc == "none"
NoRows == [check_rounds |-> << >>, service_checks |-> << >>]
EmptyMap == [sid \in {} |-> 0]

\* config.MAX_SCORE_PER_ROUND
MAX_SCORE_PER_ROUND == SumPoints(SERVICES)

\* ------------------------------------------------------- lock discipline
\* Mutant: lines 81-84 run without the lock.
InWithPublishUnlocked(l) == l \in {"L99", "L106", "L111", "L114"}

\* Mutant: time.sleep(1) indented into the with block of line 110.
InWithSleepLocked(l) ==
    l \in {"L99", "L81", "L82", "L83", "L84", "L106", "L111", "L112", "L114"}

\* The statements of the scheduler thread that stand inside "with _lock:".
InWith(l) == l \in {"L99", "L81", "L82", "L83", "L84", "L106", "L111", "L114"}

\* The scheduler can execute statement l: a statement inside a with block
\* needs _lock, which the thread holds already or takes now (it blocks while
\* another thread holds it).
At(l) == pc = l /\ (InWith(l) => lock \in {Free, "sched"})

\* Control moves to statement l; leaving a with block releases _lock.
Goto(l) ==
    /\ pc' = l
    /\ lock' = IF InWith(pc)
               THEN (IF InWith(l) THEN "sched" ELSE Free)
               ELSE lock

\* ------------------------------------------------------ _run_one_round
\* Mutant: the points are granted whatever the verdict.
PointsWhateverVerdict(svc, up) == svc.points

\* Line 61.
Points(svc, up) == IF up THEN svc.points ELSE 0

\* Lines 55-59: the verdict of one service, a raised exception included.
Verdict(svc, out) ==
    LET r == run_check(svc, out)
    IN  IF r.raised
        THEN [up |-> FALSE, message |-> "Check exception"]
        ELSE [up |-> r.up, message |-> r.message]

\* Lines 63-68.
Result(svc, v) ==
    [service_id |-> svc.id, up |-> v.up,
     points_earned |-> Points(svc, v.up), message |-> v.message]

\* Mutant: "=" for "+=".
AccumulateOverwrite(score, pts) == pts

\* Line 62.
Accumulate(score, pts) == score + pts

\* Mutant: the handler of line 57 skips the service instead of recording it.
RecordSkipsRaised(rs, svc, out) ==
    IF run_check(svc, out).raised THEN rs
    ELSE Append(rs, Result(svc, Verdict(svc, out)))

\* Lines 55-69: the result of one service joins the list.
Record(rs, svc, out) == Append(rs, Result(svc, Verdict(svc, out)))

\* Line 83: {r["service_id"]: r for r in results} (a later entry wins).
AsMap(rs) ==
    [sid \in {rs[k].service_id : k \in 1..Len(rs)} |->
        rs[CHOOSE k \in 1..Len(rs) :
              /\ rs[k].service_id = sid
              /\ \A j \in (k+1)..Len(rs) : rs[j].service_id # sid]]

\* Lines 97-99 of _scheduler_loop: the next iteration of "while True".
LoopHead ==
    /\ At("L97")
    /\ rounds < MaxRounds
    /\ rounds' = rounds + 1
    /\ Goto("L99")
    /\ UNCHANGED << state, now, db, txn, i, results, round_score,
                    probe, exc, remaining, round_id, obsVars, callVars, heap >>

\* Line 99: begin-round.
BeginRound ==
    /\ At("L99")
    /\ state' = [state EXCEPT !.is_checking = TRUE]
    /\ Goto("L51")
    /\ UNCHANGED << now, db, txn, rounds, i, results, round_score,
                    probe, exc, remaining, round_id, obsVars, callVars, heap >>

\* Lines 101 and 51-52: the try block is entered, _run_one_round starts.
StartRound ==
    /\ At("L51")
    /\ results' = << >>
    /\ round_score' = 0
    /\ i' = 1
    /\ probe' = << >>
    /\ exc' = NoExc
    /\ Goto("L56")
    /\ UNCHANGED << state, now, db, txn, rounds, remaining,
                    round_id, obsVars, callVars, heap >>

\* Mutant: a service found down is checked a second time before its result
\* is recorded.
CheckServiceRetriesDown ==
    /\ At("L56")
    /\ \E out \in Outcomes :
         LET svc == SERVICES[i]
             again == ~Verdict(svc, out).up /\ Len(probe) < i
         IN  /\ round_score' =
                  IF again THEN round_score
                  ELSE Accumulate(round_score,
                                  Result(svc, Verdict(svc, out)).points_earned)
             /\ results' = IF again THEN results ELSE Record(results, svc, out)
             /\ probe' = Append(probe, out)
             /\ i' = IF again THEN i ELSE i + 1
             /\ Goto(IF again \/ i < Len(SERVICES) THEN "L56" ELSE "L78")
    /\ UNCHANGED << state, now, db, txn, rounds, exc, remaining,
                    round_id, obsVars, callVars, heap >>

\* Lines 54-69: one iteration of "for svc in config.SERVICES".
CheckService ==
    /\ At("L56")
    /\ \E out \in Outcomes :
         LET svc == SERVICES[i]
         IN  /\ round_score' =
                  Accumulate(round_score, Result(svc, Verdict(svc, out)).points_earned)
             /\ results' = Record(results, svc, out)
             /\ probe' = Append(probe, out)
    /\ i' = i + 1
    /\ Goto(IF i < Len(SERVICES) THEN "L56" ELSE "L78")
    /\ UNCHANGED << state, now, db, txn, rounds, exc, remaining,
                    round_id, obsVars, callVars, heap >>

\* ------------------------------------------------------------ database.py
\* AUTOINCREMENT: the next id of a table that holds committed and pending rows.
NextId(committed, pending) == Len(committed) + Len(pending) + 1

\* Mutant: line 64 stores 1 whatever the verdict.
UpIntAlwaysOne(up) == 1

\* Line 64: 1 if r["up"] else 0.
UpInt(up) == IF up THEN 1 ELSE 0

\* The connection's context manager on a clean exit: commit.
Commit(committed, pending) ==
    [check_rounds   |-> committed.check_rounds \o pending.check_rounds,
     service_checks |-> committed.service_checks \o pending.service_checks]

\* Mutant: the rows written so far are kept when the block raises.
RollbackKeepsRows(committed, pending) == Commit(committed, pending)

\* The connection's context manager on an exception: rollback.
Rollback(committed, pending) == committed

\* Mutant: an exception of save_round is swallowed and the round goes on
\* with its publication.
OnRoundExceptionFallsThrough == "L81"

\* Where an exception that leaves _run_one_round lands: line 103-106.
OnRoundException == "L106"

\* save_round (or its connection) raises: the transaction is rolled back and
\* the exception leaves _run_one_round.
SaveRaises ==
    /\ db' = Rollback(db, txn)
    /\ txn' = NoRows
    /\ exc' = "save_round"
    /\ Goto(OnRoundException)

\* Line 78 and database.py 52-58: INSERT INTO check_rounds.
SaveHeader ==
    /\ At("L78")
    /\ \/ /\ txn' = [txn EXCEPT !.check_rounds = Append(@,
                        [id |-> NextId(db.check_rounds, txn.check_rounds),
                         timestamp |-> now,
                         round_score |-> round_score,
                         max_score |-> MAX_SCORE_PER_ROUND])]
          /\ round_id' = NextId(db.check_rounds, txn.check_rounds)
          /\ Goto("D59")
          /\ UNCHANGED << db, exc >>
       \/ /\ SaveRaises
          /\ UNCHANGED round_id
    /\ UNCHANGED << state, now, rounds, i, results, round_score,
                    probe, remaining, obsVars, callVars, heap >>

\* Lines 63-67: the row of service_checks for result k, written after the
\* rows in pending.
Row(k, pending) ==
    [id |-> NextId(db.service_checks, pending),
     round_id |-> round_id,
     service_id |-> results[k].service_id,
     up |-> UpInt(results[k].up),
     points_earned |-> results[k].points_earned,
     message |-> results[k].message]

\* The rows of results 1..n, in order.
RECURSIVE Rows(_)
Rows(n) ==
    IF n = 0 THEN << >> ELSE LET before == Rows(n - 1)
                             IN  Append(before, Row(n, before))

\* database.py 59-68: executemany writes one row per result; it may raise
\* before any of them, n rows being written by then.
SaveRows ==
    /\ At("D59")
    /\ \E n \in 0..Len(results) :
         LET written == [txn EXCEPT !.service_checks = Rows(n)]
         IN  \/ /\ n = Len(results)
                /\ txn' = written
                /\ Goto("D68")
                /\ UNCHANGED << db, exc >>
             \/ /\ n < Len(results)
                /\ db' = Rollback(db, written)
                /\ txn' = NoRows
                /\ exc' = "save_round"
                /\ Goto(OnRoundException)
    /\ UNCHANGED << state, now, rounds, i, results, round_score,
                    probe, remaining, round_id, obsVars, callVars, heap >>

\* database.py 53/68: the with block of the connection ends.
SaveCommit ==
    /\ At("D68")
    /\ \/ /\ db' = Commit(db, txn)
          /\ txn' = NoRows
          /\ Goto("L81")
          /\ UNCHANGED exc
       \/ SaveRaises
    /\ UNCHANGED << state, now, rounds, i, results, round_score,
                    probe, remaining, round_id, obsVars, callVars, heap >>

\* SELECT COALESCE(SUM(round_score), 0) FROM check_rounds
RECURSIVE SumRoundScores(_)
SumRoundScores(rows) ==
    IF rows = << >> THEN 0
    ELSE Head(rows).round_score + SumRoundScores(Tail(rows))

get_cumulative_score == SumRoundScores(db.check_rounds)

get_round_count == Len(db.check_rounds)

\* The first n entries of a sequence, or all of it.
Take(seq, n) == IF n >= Len(seq) THEN seq ELSE SubSeq(seq, 1, n)

Reverse(seq) == [k \in 1..Len(seq) |-> seq[Len(seq) - k + 1]]

\* Mutant: ORDER BY id ASC.
RECURSIVE OrderByIdAsc(_)
OrderByIdAsc(rows) ==
    IF rows = << >> THEN << >>
    ELSE LET k == CHOOSE k \in 1..Len(rows) :
                      \A j \in 1..Len(rows) : rows[k].id <= rows[j].id
             rest == [j \in 1..(Len(rows) - 1) |->
                          IF j < k THEN rows[j] ELSE rows[j + 1]]
         IN  << rows[k] >> \o OrderByIdAsc(rest)

\* ORDER BY id DESC: the row of the greatest id first.
RECURSIVE OrderByIdDesc(_)
OrderByIdDesc(rows) ==
    IF rows = << >> THEN << >>
    ELSE LET k == CHOOSE k \in 1..Len(rows) :
                      \A j \in 1..Len(rows) : rows[k].id >= rows[j].id
             rest == [j \in 1..(Len(rows) - 1) |->
                          IF j < k THEN rows[j] ELSE rows[j + 1]]
         IN  << rows[k] >> \o OrderByIdDesc(rest)

\* LIMIT ?: the first `limit` rows; SQLite takes a negative limit as none.
Limit(rows, limit) == IF limit < 0 THEN rows ELSE Take(rows, limit)

\* SELECT timestamp, round_score, max_score
ScoreColumns(row) ==
    [timestamp |-> row.timestamp, round_score |-> row.round_score,
     max_score |-> row.max_score]

\* database.py 84-90: SELECT * ... ORDER BY id DESC LIMIT ?
get_recent_rounds(limit) == Limit(OrderByIdDesc(db.check_rounds), limit)

\* database.py 130-141: the three columns, ORDER BY id DESC LIMIT ?, reversed.
get_score_history(limit) ==
    LET rows == Limit(OrderByIdDesc(db.check_rounds), limit)
    IN  Reverse([k \in 1..Len(rows) |-> ScoreColumns(rows[k])])

\* SELECT * FROM service_checks WHERE round_id = ?
WhereRoundId(rows, id) == SelectSeq(rows, LAMBDA r : r.round_id = id)

\* {r["service_id"]: dict(r) for r in rows}: a later row wins.
ByServiceId(rows) ==
    [sid \in {rows[k].service_id : k \in 1..Len(rows)} |->
        rows[CHOOSE k \in 1..Len(rows) :
                /\ rows[k].service_id = sid
                /\ \A j \in (k+1)..Len(rows) : rows[j].service_id # sid]]

\* database.py 112-127: the service_checks rows of the round with the
\* greatest id, keyed by service_id; {} when there is no round.
get_last_round_results ==
    LET row == Limit(OrderByIdDesc(db.check_rounds), 1)
    IN  IF row = << >>
        THEN EmptyMap
        ELSE ByServiceId(WhereRoundId(db.service_checks, row[1].id))

\* ------------------------------------------- _run_one_round, lines 80-91
PublishTime ==
    /\ At("L81")
    /\ state' = [state EXCEPT !.last_check_time = now]
    /\ Goto("L82")
    /\ UNCHANGED << now, db, txn, rounds, i, results, round_score,
                    probe, exc, remaining, round_id, obsVars, callVars, heap >>

PublishScore ==
    /\ At("L82")
    /\ state' = [state EXCEPT !.round_score = round_score]
    /\ Goto("L83")
    /\ UNCHANGED << now, db, txn, rounds, i, results, round_score,
                    probe, exc, remaining, round_id, obsVars, callVars, heap >>

PublishResults ==
    /\ At("L83")
    /\ state' = [state EXCEPT !.current_results = AsMap(results)]
    /\ Goto("L84")
    /\ UNCHANGED << now, db, txn, rounds, i, results, round_score,
                    probe, exc, remaining, round_id, obsVars, callVars, heap >>

PublishDone ==
    /\ At("L84")
    /\ state' = [state EXCEPT !.is_checking = FALSE]
    /\ Goto("L90")
    /\ UNCHANGED << now, db, txn, rounds, i, results, round_score,
                    probe, exc, remaining, round_id, obsVars, callVars, heap >>

\* Lines 86-91: the log line reads get_cumulative_score(), whose connection
\* may raise; otherwise _run_one_round returns.
RoundLog ==
    /\ At("L90")
    /\ \/ /\ Goto("L109")
          /\ UNCHANGED exc
       \/ /\ exc' = "get_cumulative_score"
          /\ Goto(OnRoundException)
    /\ UNCHANGED << state, now, db, txn, rounds, i, results,
                    round_score, probe, remaining, round_id, obsVars, callVars, heap >>

\* ------------------------------------------- _scheduler_loop, lines 103-114
\* Mutant: the handler logs the error and leaves the flag alone.
ClearInProgressForgotten(s) == s

\* Line 106.
ClearInProgress(s) == [s EXCEPT !.is_checking = FALSE]

\* Mutant: the handler also publishes the results of the round that failed.
RoundFailedPublishes ==
    /\ At("L106")
    /\ state' = [ClearInProgress(state) EXCEPT !.last_check_time = now,
                                               !.round_score = round_score,
                                               !.current_results = AsMap(results)]
    /\ Goto("L109")
    /\ UNCHANGED << now, db, txn, rounds, i, results, round_score,
                    probe, exc, remaining, round_id, obsVars, callVars, heap >>

\* Lines 103-106: the exception is logged and the flag cleared.
RoundFailed ==
    /\ At("L106")
    /\ state' = ClearInProgress(state)
    /\ Goto("L109")
    /\ UNCHANGED << now, db, txn, rounds, i, results, round_score,
                    probe, exc, remaining, round_id, obsVars, callVars, heap >>

\* Line 109: range(config.CHECK_INTERVAL, 0, -1) yields its first value.
CountdownStart ==
    /\ At("L109")
    /\ remaining' = CHECK_INTERVAL
    /\ Goto(IF CHECK_INTERVAL > 0 THEN "L111" ELSE "L114")
    /\ UNCHANGED << state, now, db, txn, rounds, i, results,
                    round_score, probe, exc, round_id, obsVars, callVars, heap >>

\* Mutant: the tick also empties the published results.
TickClearsResults ==
    /\ At("L111")
    /\ state' = [state EXCEPT !.next_check_in = remaining,
                              !.current_results = EmptyMap]
    /\ Goto("L112")
    /\ UNCHANGED << now, db, txn, rounds, i, results, round_score,
                    probe, exc, remaining, round_id, obsVars, callVars, heap >>

\* Line 111: countdown-tick.
Tick ==
    /\ At("L111")
    /\ state' = [state EXCEPT !.next_check_in = remaining]
    /\ Goto("L112")
    /\ UNCHANGED << now, db, txn, rounds, i, results, round_score,
                    probe, exc, remaining, round_id, obsVars, callVars, heap >>

\* Line 112, then the next value of the range or the end of the loop.
Sleep ==
    /\ At("L112")
    /\ now' = now + 1
    /\ IF remaining > 1
       THEN remaining' = remaining - 1 /\ Goto("L111")
       ELSE remaining' = remaining /\ Goto("L114")
    /\ UNCHANGED << state, db, txn, rounds, i, results, round_score,
                    probe, exc, round_id, obsVars, callVars, heap >>

\* Mutant: the loop is left without line 114.
CountdownEndLeavesOne ==
    /\ At("L114")
    /\ Goto("L97")
    /\ UNCHANGED << state, now, db, txn, rounds, i, results, round_score,
                    probe, exc, remaining, round_id, obsVars, callVars, heap >>

\* Line 114.
CountdownEnd ==
    /\ At("L114")
    /\ state' = [state EXCEPT !.next_check_in = 0]
    /\ Goto("L97")
    /\ UNCHANGED << now, db, txn, rounds, i, results, round_score,
                    probe, exc, remaining, round_id, obsVars, callVars, heap >>

Scheduler ==
    \/ LoopHead
    \/ BeginRound
    \/ StartRound
    \/ CheckService
    \/ SaveHeader
    \/ SaveRows
    \/ SaveCommit
    \/ PublishTime
    \/ PublishScore
    \/ PublishResults
    \/ PublishDone
    \/ RoundLog
    \/ RoundFailed
    \/ CountdownStart
    \/ Tick
    \/ Sleep
    \/ CountdownEnd

\* ------------------------------------------------------- request thread
\* SELECT service_id, COUNT(*), SUM(up), SUM(points_earned)
\* FROM service_checks GROUP BY service_id
RECURSIVE CountRows(_, _)
CountRows(rows, sid) ==
    IF rows = << >> THEN 0
    ELSE (IF Head(rows).service_id = sid THEN 1 ELSE 0) + CountRows(Tail(rows), sid)

RECURSIVE SumUp(_, _)
SumUp(rows, sid) ==
    IF rows = << >> THEN 0
    ELSE (IF Head(rows).service_id = sid THEN Head(rows).up ELSE 0)
         + SumUp(Tail(rows), sid)

RECURSIVE SumEarned(_, _)
SumEarned(rows, sid) ==
    IF rows = << >> THEN 0
    ELSE (IF Head(rows).service_id = sid THEN Head(rows).points_earned ELSE 0)
         + SumEarned(Tail(rows), sid)

get_service_stats ==
    LET rows == db.service_checks
    IN  [sid \in {rows[k].service_id : k \in 1..Len(rows)} |->
            [total_checks |-> CountRows(rows, sid),
             up_count     |-> SumUp(rows, sid),
             total_points |-> SumEarned(rows, sid)]]

\* dict.get(key, default) on a dict of records, for one field of the record.
GetField(map, key, field, default) ==
    IF key \in DOMAIN map THEN map[key][field] ELSE default

\* How a template or jsonify shows last.get("up"): None before the first round.
ShowUp(map, key) ==
    IF key \in DOMAIN map
    THEN (IF map[key].up THEN "true" ELSE "false")
    ELSE "null"

\* The statements of the request thread that stand inside "with _lock:".
ObsInWith(l) == l \in {"I161", "I128", "A191", "A192"}

ObsAt(l) == opc = l /\ (ObsInWith(l) => lock \in {Free, "obs"})

\* Mutant: a handler that has taken the lock keeps it.
ObsGotoKeepsLock(l) ==
    /\ opc' = l
    /\ lock' = IF ObsInWith(opc) THEN "obs" ELSE lock

ObsGoto(l) ==
    /\ opc' = l
    /\ lock' = IF ObsInWith(opc)
               THEN (IF ObsInWith(l) THEN "obs" ELSE Free)
               ELSE lock

\* A request for "/" is served: lines 160-161 of index.
IndexSnapshot ==
    /\ ObsAt("I161")
    /\ state_snapshot' = state
    /\ ObsGoto("I125")
    /\ UNCHANGED << state, now, db, txn, schedVars, callVars, heap,
                    results_copy, stats, response >>

\* Line 163 calls _build_services_display; its line 125.
DisplayStats ==
    /\ ObsAt("I125")
    /\ stats' = get_service_stats
    /\ ObsGoto("I128")
    /\ UNCHANGED << state, now, db, txn, schedVars, callVars, heap,
                    state_snapshot, results_copy, response >>

\* Lines 127-128 of _build_services_display.
DisplayResults ==
    /\ ObsAt("I128")
    /\ results_copy' = state.current_results
    /\ ObsGoto("I130")
    /\ UNCHANGED << state, now, db, txn, schedVars, callVars, heap,
                    state_snapshot, stats, response >>

\* Lines 130-155: one row of the display per configured service.
Display(res, st) ==
    [k \in 1..Len(SERVICES) |->
        LET sid == SERVICES[k].id
        IN  [id |-> sid,
             points_per_round |-> SERVICES[k].points,
             up |-> ShowUp(res, sid),
             message |-> GetField(res, sid, "message", "No checks run yet"),
             points_last_round |-> GetField(res, sid, "points_earned", 0),
             total_points |-> GetField(st, sid, "total_points", 0),
             total_checks |-> GetField(st, sid, "total_checks", 0)]]

\* Lines 130-184: the display is built and the page rendered.
IndexRender ==
    /\ ObsAt("I130")
    /\ response' =
         [services |-> Display(results_copy, stats),
          last_check_time |-> state_snapshot.last_check_time,
          next_check_in |-> state_snapshot.next_check_in,
          is_checking |-> state_snapshot.is_checking,
          round_score |-> state_snapshot.round_score,
          max_score_per_round |-> MAX_SCORE_PER_ROUND,
          cumulative_score |-> get_cumulative_score,
          round_count |-> get_round_count]
    /\ ObsGoto("I184")
    /\ UNCHANGED << state, now, db, txn, schedVars, callVars, heap,
                    state_snapshot, results_copy, stats >>

\* A request for "/api/status" is served: line 191 of api_status.
StatusSnapshot ==
    /\ ObsAt("A191")
    /\ state_snapshot' = state
    /\ ObsGoto("A192")
    /\ UNCHANGED << state, now, db, txn, schedVars, callVars, heap,
                    results_copy, stats, response >>

\* Line 192 of api_status.
StatusResults ==
    /\ ObsAt("A192")
    /\ results_copy' = state.current_results
    /\ ObsGoto("A194")
    /\ UNCHANGED << state, now, db, txn, schedVars, callVars, heap,
                    state_snapshot, stats, response >>

\* Lines 194-203.
ServicesOut(res) ==
    [k \in 1..Len(SERVICES) |->
        LET sid == SERVICES[k].id
        IN  [id |-> sid,
             up |-> ShowUp(res, sid),
             points_earned |-> GetField(res, sid, "points_earned", 0),
             message |-> GetField(res, sid, "message", "")]]

\* Lines 194-214.
StatusRender ==
    /\ ObsAt("A194")
    /\ response' =
         [services |-> ServicesOut(results_copy),
          last_check_time |-> state_snapshot.last_check_time,
          next_check_in |-> state_snapshot.next_check_in,
          is_checking |-> state_snapshot.is_checking,
          round_score |-> state_snapshot.round_score,
          max_score_per_round |-> MAX_SCORE_PER_ROUND,
          cumulative_score |-> get_cumulative_score,
          round_count |-> get_round_count]
    /\ ObsGoto("A214")
    /\ UNCHANGED << state, now, db, txn, schedVars, callVars, heap,
                    state_snapshot, results_copy, stats >>

\* Line 220: api_history asks for the last 30 rounds.
HISTORY_LIMIT == 30

\* A request for "/api/history" is served: lines 217-220 of api_history.
ApiHistory ==
    /\ ObsAt("H220")
    /\ response' = get_score_history(HISTORY_LIMIT)
    /\ ObsGoto("H221")
    /\ UNCHANGED << state, now, db, txn, schedVars, callVars, heap,
                    state_snapshot, results_copy, stats >>

\* The response is sent and the handler's locals are gone; the thread takes
\* the next request, for "/", for "/api/status" or for "/api/history".
Respond ==
    /\ opc \in {"I184", "A214", "H221"}
    /\ state_snapshot' = EmptyMap
    /\ results_copy' = EmptyMap
    /\ stats' = EmptyMap
    /\ response' = EmptyMap
    /\ \E l \in {"I161", "A191", "H220"} : ObsGoto(l)
    /\ UNCHANGED << state, now, db, txn, schedVars, callVars, heap >>

Observer ==
    \/ IndexSnapshot
    \/ DisplayStats
    \/ DisplayResults
    \/ IndexRender
    \/ StatusSnapshot
    \/ StatusResults
    \/ StatusRender
    \/ ApiHistory
    \/ Respond

\* ------------------------------------------------------------------ Init
EngineInit ==
    /\ state = [last_check_time |-> None, next_check_in |-> 0,
                current_results |-> EmptyMap, round_score |-> 0,
                is_checking |-> FALSE]
    /\ lock = Free
    /\ now = 1
    /\ db = NoRows
    /\ txn = NoRows
    /\ pc = "L97"
    /\ rounds = 0
    /\ i = 1
    /\ results = << >>
    /\ round_score = 0
    /\ probe = << >>
    /\ exc = NoExc
    /\ remaining = 0
    /\ round_id = 0
    /\ opc \in {"I161", "A191", "H220"}
    /\ state_snapshot = EmptyMap
    /\ results_copy = EmptyMap
    /\ stats = EmptyMap
    /\ response = EmptyMap
    /\ heap = << >>

\* No function is being called on its own, or the call has not returned:
\* a returned value v is held as << v >>.
NoCall == << >>

Init == EngineInit /\ call = NoCall /\ ret = NoCall

Next == Scheduler \/ Observer

\* The scheduler thread and the request thread.
Spec == Init /\ [][Next]_vars

\* The scheduler thread alone, no request being served: the request thread
\* writes none of the variables the scheduler thread reads.
SchedulerSpec == Init /\ [][Scheduler]_vars

\* ---------------------------------------------------------------- claims
\* Sum of points_earned over a result list.
RECURSIVE SumEarnedSeq(_)
SumEarnedSeq(rs) ==
    IF rs = << >> THEN 0 ELSE Head(rs).points_earned + SumEarnedSeq(Tail(rs))

\* Sum of points_earned over the entries a result map holds for services svcs.
RECURSIVE SumEarnedMap(_, _)
SumEarnedMap(map, svcs) ==
    IF svcs = << >> THEN 0
    ELSE GetField(map, Head(svcs).id, "points_earned", 0)
         + SumEarnedMap(map, Tail(svcs))

ServiceIds == {SERVICES[k].id : k \in 1..Len(SERVICES)}

\* The fields of a status dict belong to one round (or to none yet).
OneRound(s) ==
    /\ s.round_score = SumEarnedMap(s.current_results, SERVICES)
    /\ DOMAIN s.current_results \in {{}, ServiceIds}
    /\ (s.last_check_time = None) <=> (DOMAIN s.current_results = {})

\* C1: when save_round raised for a round, the state shared with the observers
\* shows that round once it has ended: last_check_time, round_score and
\* current_results are those of the round just checked.
C1_SaveFailureStillPublishes ==
    (pc = "L109" /\ exc = "save_round") =>
        /\ state.last_check_time = now
        /\ state.round_score = round_score
        /\ state.current_results = AsMap(results)

\* C2: whenever the scheduler is outside its critical sections, the shared
\* state is that of one round: round_score is the sum of points_earned over
\* current_results, and current_results is empty or holds every configured
\* service; api_status, which reads everything in one critical section,
\* answers with such a state.
C2_SnapshotNeverMixed ==
    /\ lock # "sched" => OneRound(state)
    /\ opc \in {"A194", "A214"} =>
          /\ OneRound(state_snapshot)
          /\ results_copy = state_snapshot.current_results
    /\ opc = "A214" =>
          /\ response.round_score = SumEarnedSeq(response.services)
          /\ \/ \A k \in 1..Len(SERVICES) : response.services[k].up = "null"
             \/ \A k \in 1..Len(SERVICES) : response.services[k].up # "null"

\* api_status answers with a completed round that scored points.
C2_Witness ==
    /\ opc = "A214"
    /\ response.last_check_time # None
    /\ response.round_score > 0
    /\ response.is_checking = FALSE

\* C3: the page index renders shows one state of the shared snapshot: the
\* per-service up, points and message it displays are those of the snapshot
\* its round_score, last_check_time and is_checking come from.
C3_IndexViewFromOneState ==
    opc = "I184" =>
        \A k \in 1..Len(SERVICES) :
            LET sid == SERVICES[k].id
                cur == state_snapshot.current_results
            IN  /\ response.services[k].up = ShowUp(cur, sid)
                /\ response.services[k].points_last_round
                      = GetField(cur, sid, "points_earned", 0)
                /\ response.services[k].message
                      = GetField(cur, sid, "message", "No checks run yet")

\* The statements after the for loop of _run_one_round, up to the next round.
AfterChecks ==
    {"L78", "D59", "D68", "L81", "L82", "L83", "L84", "L90",
     "L106", "L109", "L111", "L112", "L114"}

\* C4: a round's result list holds one entry per configured service, in
\* configuration order, each with a boolean up; a service whose check raised
\* is recorded down with a "Check exception" message, and the loop goes on
\* to the services after it.
C4_EveryServiceInEveryRound ==
    /\ Len(results) = Len(probe)
    /\ pc = "L56" => Len(results) = i - 1
    /\ pc \in AfterChecks => Len(results) = Len(SERVICES)
    /\ \A k \in 1..Len(results) :
          /\ k <= Len(SERVICES)
          /\ results[k].service_id = SERVICES[k].id
          /\ results[k].up \in BOOLEAN
          /\ k <= Len(probe) /\ run_check(SERVICES[k], probe[k]).raised =>
                /\ results[k].up = FALSE
                /\ results[k].message = "Check exception"

\* A check raised and the service after it was checked and found up.
C4_Witness ==
    /\ pc = "L78"
    /\ \E k \in 1..(Len(results) - 1) :
          /\ run_check(SERVICES[k], probe[k]).raised
          /\ results[k].message = "Check exception"
          /\ results[k + 1].up

SchedLabels ==
    {"L97", "L99", "L51", "L56", "L78", "D59", "D68", "L81", "L82", "L83",
     "L84", "L90", "L106", "L109", "L111", "L112", "L114"}

\* C6: a round that raised, while persisting or after publishing, does not end
\* the scheduler thread: control reaches the handler, the in-progress flag is
\* clear from the start of the countdown on, the countdown sleeps the whole
\* interval and ends at 0, and the loop is back at its head for the next round.
C6_SchedulerSurvivesFault ==
    /\ pc \in SchedLabels
    /\ exc # NoExc =>
          /\ pc \in {"L106", "L109", "L111", "L112", "L114", "L97", "L99", "L51"}
          /\ pc \in {"L109", "L111", "L112", "L114", "L97"} =>
                state.is_checking = FALSE
          /\ pc \in {"L111", "L112"} =>
                now = 1 + rounds * CHECK_INTERVAL - remaining
          /\ pc \in {"L114", "L97"} => now = 1 + rounds * CHECK_INTERVAL
          /\ pc = "L97" => state.next_check_in = 0
          /\ pc \in {"L99", "L51"} =>
                /\ rounds >= 2
                /\ now = 1 + (rounds - 1) * CHECK_INTERVAL

\* After a round whose save_round raised, the countdown has run to its end
\* and the loop stands at "while True" with the flag clear.
C6_Witness ==
    /\ exc = "save_round"
    /\ pc = "L97"
    /\ state.is_checking = FALSE
    /\ state.next_check_in = 0
    /\ now = 1 + rounds * CHECK_INTERVAL

\* The log holds, for each header, one row per configured service, in order.
LogWellFormed(d) ==
    /\ Len(d.service_checks) = Len(d.check_rounds) * Len(SERVICES)
    /\ \A r \in 1..Len(d.check_rounds) :
          /\ d.check_rounds[r].id = r
          /\ \A k \in 1..Len(SERVICES) :
                LET row == d.service_checks[(r - 1) * Len(SERVICES) + k]
                IN  /\ row.round_id = r
                    /\ row.service_id = SERVICES[k].id

\* A step in which save_round raises: control leaves it for the handler.
SaveFails == pc \in {"L78", "D59", "D68"} /\ pc' = OnRoundException

\* A step in which save_round returns.
SaveReturns == pc = "D68" /\ pc' = "L81"

\* C7: save_round is all-or-nothing.  When it returns, the log has gained the
\* round's header and one row per result, all with the header's id; when it
\* raises at any step the log is as before the call, and so are the round
\* count, the cumulative score and the per-service statistics; the log never
\* holds a header without its rows or rows without their header.
C7_SaveRoundAllOrNothing ==
    /\ [](LogWellFormed(db))
    /\ [][ /\ SaveFails =>
                /\ db' = db
                /\ get_round_count' = get_round_count
                /\ get_cumulative_score' = get_cumulative_score
                /\ get_service_stats' = get_service_stats
           /\ SaveReturns =>
                /\ get_round_count' = get_round_count + 1
                /\ get_cumulative_score' = get_cumulative_score + round_score
                /\ Len(db'.service_checks)
                      = Len(db.service_checks) + Len(results)
                /\ \A k \in 1..Len(results) :
                      LET row == db'.service_checks[Len(db.service_checks) + k]
                      IN  /\ row.round_id = db'.check_rounds[get_round_count'].id
                          /\ row.service_id = results[k].service_id
                          /\ row.points_earned = results[k].points_earned
           /\ (~SaveFails /\ ~SaveReturns) => db' = db
         ]_vars

\* save_round raised for a complete round, and the log holds nothing of it.
C7_Witness ==
    /\ exc = "save_round"
    /\ pc = "L106"
    /\ Len(results) = Len(SERVICES)
    /\ db = NoRows
    /\ txn = NoRows

\* Sum of points_earned over the rows of round r in the log.
RECURSIVE SumEarnedRows(_, _)
SumEarnedRows(rows, r) ==
    IF rows = << >> THEN 0
    ELSE (IF Head(rows).round_id = r THEN Head(rows).points_earned ELSE 0)
         + SumEarnedRows(Tail(rows), r)

\* C8: in every round round_score is the sum of points_earned over the
\* round's results and lies between 0 and max_score, the sum of the
\* configured point values; so do the published score and every persisted
\* header.  Up/down/up over point values 100/50/75 gives 175 of 225.
C8_RoundScoreIsSum ==
    /\ round_score = SumEarnedSeq(results)
    /\ 0 <= round_score /\ round_score <= MAX_SCORE_PER_ROUND
    /\ 0 <= state.round_score /\ state.round_score <= MAX_SCORE_PER_ROUND
    /\ \A r \in 1..Len(db.check_rounds) :
          LET h == db.check_rounds[r]
          IN  /\ h.round_score = SumEarnedRows(db.service_checks, h.id)
              /\ 0 <= h.round_score /\ h.round_score <= h.max_score
              /\ h.max_score = MAX_SCORE_PER_ROUND
    /\ LET first == SubSeq(ConfigServices, 1, 3)
       IN  /\ Accumulate(Accumulate(Accumulate(0, Points(first[1], TRUE)),
                                    Points(first[2], FALSE)),
                         Points(first[3], TRUE)) = 175
           /\ SumPoints(first) = 225

\* A round with verdicts up, down, up that scored less than the maximum.
C8_Witness ==
    /\ pc = "L78"
    /\ results[1].up /\ ~results[2].up /\ results[3].up
    /\ round_score = results[1].points_earned + results[3].points_earned
    /\ 0 < round_score /\ round_score < MAX_SCORE_PER_ROUND

PointsOf(sid) ==
    LET k == CHOOSE k \in 1..Len(SERVICES) : SERVICES[k].id = sid
    IN  SERVICES[k].points

\* C9: points_earned is the configured point value of the service when it is
\* up and 0 when it is down, down by exception included: in the round's
\* result list, in the published snapshot and in the rows written to the log.
C9_PointsAllOrNothing ==
    /\ \A k \in 1..Len(results) :
          results[k].points_earned
             = (IF results[k].up THEN PointsOf(results[k].service_id) ELSE 0)
    /\ \A sid \in DOMAIN state.current_results :
          state.current_results[sid].points_earned
             = (IF state.current_results[sid].up THEN PointsOf(sid) ELSE 0)
    /\ \A rows \in {db.service_checks, txn.service_checks} :
          \A k \in 1..Len(rows) :
             /\ rows[k].up \in {0, 1}
             /\ rows[k].points_earned
                   = (IF rows[k].up = 1 THEN PointsOf(rows[k].service_id) ELSE 0)

\* A persisted and published round with a service up, and one down by
\* exception.
C9_Witness ==
    /\ Len(db.service_checks) = Len(SERVICES)
    /\ DOMAIN state.current_results = ServiceIds
    /\ \E k \in 1..Len(db.service_checks) :
          /\ db.service_checks[k].up = 0
          /\ db.service_checks[k].message = "Check exception"
          /\ db.service_checks[k].points_earned = 0
    /\ \E sid \in ServiceIds :
          /\ state.current_results[sid].up
          /\ state.current_results[sid].points_earned = PointsOf(sid)

\* The statements of the scheduler thread that probe a service, open the
\* result log, or sleep.
SlowStatements == {"L56", "L78", "D59", "D68", "L90", "L112"}

\* The statements of the scheduler thread that assign a field of _state.
StateAssignments == {"L99", "L81", "L82", "L83", "L84", "L106", "L111", "L114"}

\* C10: while the scheduler thread holds _lock its next statement is never a
\* check, a use of the result log or a sleep: between taking and releasing
\* the lock it only assigns fields of the shared state.
C10_LockHeldOnlyForAssignments ==
    lock = "sched" =>
        /\ pc \notin SlowStatements
        /\ pc \in StateAssignments

\* The scheduler is inside its publishing critical section while a request
\* waits for the lock.
C10_Witness ==
    /\ lock = "sched"
    /\ pc = "L83"
    /\ opc \in {"I161", "I128", "A191"}

\* ----------------------------------------------- checks.py, step by step
\* The checkers again, each as the statements of its body over what the
\* library calls it makes can do.  A library call returns ("ok") or raises;
\* an exception is named by its class.
Raise(e) == [raised |-> TRUE, up |-> FALSE, message |-> e]

\* ftplib.all_errors: ftplib.Error (error_reply, error_temp, error_perm,
\* error_proto), OSError (socket.timeout and ConnectionRefusedError are
\* subclasses of it) and EOFError.
FtpAllErrors ==
    {"error_reply", "error_temp", "error_perm", "error_proto",
     "OSError", "EOFError"}

\* What one call of ftplib can do: return, raise one of all_errors, or raise
\* something else ("Exception").
FtpStep == {"ok"} \cup FtpAllErrors \cup {"Exception"}

\* One probed FTP server: what connect (which reads the banner), login, the
\* quit of line 85 and the quit of line 88 do.
FtpCalls ==
    [connect : FtpStep, login : FtpStep, quit : FtpStep, quit_denied : FtpStep]

\* Lines 84-86, the body of the inner try.
FtpLogin(c) ==
    IF c.login # "ok" THEN Raise(c.login)
    ELSE IF c.quit # "ok" THEN Raise(c.quit)
    ELSE Returned(TRUE, "Anonymous login OK")

\* Lines 83-89: the inner try with its "except ftplib.error_perm" handler,
\* which covers login and the quit of line 85 alike.
FtpInner(c) ==
    LET r == FtpLogin(c) IN
    IF r.raised /\ r.message = "error_perm"
    THEN IF c.quit_denied # "ok" THEN Raise(c.quit_denied)
         ELSE Returned(TRUE, "Service UP (anonymous denied)")
    ELSE r

\* Lines 79-93: connect and getwelcome, the inner try, the two outer handlers.
CheckFtp(c) ==
    LET r == IF c.connect # "ok" THEN Raise(c.connect) ELSE FtpInner(c) IN
    IF ~r.raised THEN r
    ELSE IF r.message \in FtpAllErrors THEN Returned(FALSE, "FTP error")
    ELSE Returned(FALSE, "str(e)")

\* check_ftp is called once on a server drawn from FtpCalls.
FtpInit == EngineInit /\ opc = "I161" /\ call \in FtpCalls /\ ret = NoCall

FtpCheck ==
    /\ ret = NoCall
    /\ ret' = << CheckFtp(call) >>
    /\ UNCHANGED << state, lock, now, db, txn, schedVars, obsVars, call, heap >>

FtpNext == FtpCheck

FtpSpec == FtpInit /\ [][FtpNext]_vars

\* C11: check_ftp reports up if and only if connect (with the banner read)
\* returned and login either returned or raised error_perm, whatever the
\* quit calls do; a failure of connect gives down.
C11_FtpUpIffLoginAnswered ==
    ret # NoCall =>
        /\ ret[1].up <=>
               (call.connect = "ok" /\ call.login \in {"ok", "error_perm"})
        /\ call.connect # "ok" => ~ret[1].up

\* ------------------------------------------------------------ check_smtp
\* What a call of smtplib can do: return the server's reply code, or raise.
Reply(code) == [exc |-> "none", code |-> code]
Fails(e) == [exc |-> e, code |-> 0]

\* Reply codes a server may send to the connection, to EHLO and to QUIT.
SmtpCodes == {220, 221, 250, 421, 502, 554}

\* smtplib.SMTPException and its subclasses, as far as connect, ehlo and the
\* QUIT of SMTP.__exit__ raise them.
SmtpExceptions == {"SMTPServerDisconnected", "SMTPResponseException"}

SmtpStep ==
    {Reply(code) : code \in SmtpCodes}
    \cup {Fails(e) : e \in {"SMTPServerDisconnected", "OSError", "Exception"}}

\* One probed SMTP server: what smtp.connect, smtp.ehlo and the QUIT sent
\* when the with-block of line 102 is left do.
SmtpCalls == [connect : SmtpStep, ehlo : SmtpStep, quit : SmtpStep]

\* Lines 103-107, the body of the with-block.  smtp.ehlo returns the reply
\* (code, msg) for every code the server sends; line 106 drops it.
SmtpBody(c) ==
    IF c.connect.exc # "none" THEN Raise(c.connect.exc)
    ELSE IF c.connect.code # 220 THEN Returned(FALSE, "Expected 220")
    ELSE IF c.ehlo.exc # "none" THEN Raise(c.ehlo.exc)
    ELSE Returned(TRUE, "EHLO accepted")

\* Leaving the with-block of line 102, by return or by exception, runs
\* SMTP.__exit__: it sends QUIT, swallows SMTPServerDisconnected and raises
\* SMTPResponseException when the reply is not 221; what it raises replaces
\* the outcome r of the body.
SmtpExit(c, r) ==
    IF c.quit.exc = "SMTPServerDisconnected" THEN r
    ELSE IF c.quit.exc # "none" THEN Raise(c.quit.exc)
    ELSE IF c.quit.code # 221 THEN Raise("SMTPResponseException")
    ELSE r

\* Lines 101-111.
CheckSmtp(c) ==
    LET r == SmtpExit(c, SmtpBody(c)) IN
    IF ~r.raised THEN r
    ELSE IF r.message \in SmtpExceptions THEN Returned(FALSE, "SMTP error")
    ELSE Returned(FALSE, "str(e)")

\* check_smtp is called once on a server drawn from SmtpCalls.
SmtpInit == EngineInit /\ opc = "I161" /\ call \in SmtpCalls /\ ret = NoCall

SmtpCheck ==
    /\ ret = NoCall
    /\ ret' = << CheckSmtp(call) >>
    /\ UNCHANGED << state, lock, now, db, txn, schedVars, obsVars, call, heap >>

SmtpNext == SmtpCheck

SmtpSpec == SmtpInit /\ [][SmtpNext]_vars

\* The server sent reply code `code` to the step.
Answered(step, code) == step.exc = "none" /\ step.code = code

\* The server sent a positive completion reply (2xx) to the step.
Accepted(step) == step.exc = "none" /\ step.code \div 100 = 2

\* The QUIT on leaving the with-block raises nothing check_smtp sees.
QuitClean(c) == Answered(c.quit, 221) \/ c.quit.exc = "SMTPServerDisconnected"

\* C12: check_smtp reports up only if the greeting code is 220 and the server
\* accepted EHLO (a 2xx reply), and does report up then unless the session ends
\* in an SMTP-level error: another greeting code, an EHLO reply that is not a
\* success, or an SMTP-level error gives down.
C12_SmtpUpIffEhloAccepted ==
    ret # NoCall =>
        /\ ret[1].up => (Answered(call.connect, 220) /\ Accepted(call.ehlo))
        /\ (Answered(call.connect, 220) /\ Accepted(call.ehlo)
               /\ QuitClean(call)) => ret[1].up

\* ----------------------------------------------------------- check_mysql
\* Longest received byte string that is walked (s.recv(256) returns at most
\* 256 bytes).
MaxData == 8

\* Values of a received byte: NUL, the protocol byte 0x0a, the error marker
\* 0xff and the ASCII digit "5".  None of them begins a multi-byte UTF-8
\* sequence.
Bytes == {0, 10, 53, 255}

ByteStrings == UNION {[1..n -> Bytes] : n \in 0..MaxData}

\* data[k] and data[lo:hi] of Python, offsets counted from 0; a slice is
\* clipped to the string.
Byte(data, k) == data[k + 1]
Slice(data, lo, hi) ==
    IF lo >= hi \/ lo >= Len(data) THEN << >>
    ELSE SubSeq(data, lo + 1, IF hi > Len(data) THEN Len(data) ELSE hi)

\* Mutant: the search starts after offset `start`.
RECURSIVE IndexAfterStart(_, _, _)
IndexAfterStart(data, b, start) ==
    IF start + 1 >= Len(data) THEN -1
    ELSE IF Byte(data, start + 1) = b THEN start + 1
    ELSE IndexAfterStart(data, b, start + 1)

\* data.index(bytes([b]), start): the least offset >= start holding b; -1
\* stands for the ValueError raised when there is none.
RECURSIVE Index(_, _, _)
Index(data, b, start) ==
    IF start >= Len(data) THEN -1
    ELSE IF Byte(data, start) = b THEN start
    ELSE Index(data, b, start + 1)

\* U+FFFD, which decode(..., errors="replace") puts for a byte that is not
\* valid in the encoding.
REPLACEMENT == 65533

\* bytes.decode("ascii", errors="replace") and, for byte strings over Bytes,
\* bytes.decode("utf-8", errors="replace"): the code points of the text.
Decode(data) ==
    [k \in 1..Len(data) |-> IF data[k] < 128 THEN data[k] ELSE REPLACEMENT]

\* Line 159: the error text is cut to its first 60 characters.
ERR_TEXT_MAX == 60

HexDigits ==
    << "0", "1", "2", "3", "4", "5", "6", "7",
       "8", "9", "a", "b", "c", "d", "e", "f" >>

\* f"{proto:02x}"
Hex02(b) == << HexDigits[(b \div 16) + 1], HexDigits[(b % 16) + 1] >>

\* A verdict whose message is a fixed text followed by a formatted value.
Message(text, arg) == [text |-> text, arg |-> arg]

\* Lines 144-162: the handshake packet `data` is parsed.
ParseHandshake(data) ==
    IF Len(data) < 5
    THEN Returned(FALSE, Message("Incomplete handshake", << >>))
    ELSE LET proto == Byte(data, 4) IN
         IF proto = 10
         THEN LET null_idx == Index(data, 0, 5) IN
              IF null_idx = -1
              THEN Returned(TRUE, Message("MySQL handshake OK (version unreadable)",
                                          << >>))
              ELSE Returned(TRUE, Message("MySQL/MariaDB",
                                          Decode(Slice(data, 5, null_idx))))
         ELSE IF proto = 255
         THEN Returned(FALSE, Message("MySQL error",
                   Slice(Decode(Slice(data, 7, Len(data))), 0, ERR_TEXT_MAX)))
         ELSE Returned(TRUE, Message("DB port open (proto byte=0x", Hex02(proto)))

\* What _tcp_connect and s.recv can do besides delivering bytes.
MysqlFailures == {"socket.timeout", "ConnectionRefusedError", "Exception"}

\* One probed server: the bytes recv returns, or the exception of connect or
\* recv.
MysqlCalls ==
    {[recv |-> "ok", data |-> d] : d \in ByteStrings}
    \cup {[recv |-> e, data |-> << >>] : e \in MysqlFailures}

\* Lines 141-168.
CheckMysql(c) ==
    CASE c.recv = "ok" -> ParseHandshake(c.data)
      [] c.recv = "socket.timeout" ->
             Returned(FALSE, Message("Connection timed out", << >>))
      [] c.recv = "ConnectionRefusedError" ->
             Returned(FALSE, Message("Connection refused", << >>))
      [] OTHER -> Returned(FALSE, Message("str(e)", << >>))

\* check_mysql is called once on a server drawn from MysqlCalls.
MysqlInit == EngineInit /\ opc = "I161" /\ call \in MysqlCalls /\ ret = NoCall

MysqlCheck ==
    /\ ret = NoCall
    /\ ret' = << CheckMysql(call) >>
    /\ UNCHANGED << state, lock, now, db, txn, schedVars, obsVars, call, heap >>

MysqlNext == MysqlCheck

MysqlSpec == MysqlInit /\ [][MysqlNext]_vars

\* The character a byte shows as in a decoded message.
CharOf(b) == IF b < 128 THEN b ELSE REPLACEMENT

\* text is the decoded bytes of data at offsets lo .. hi-1.
IsTextOf(text, data, lo, hi) ==
    /\ Len(text) = hi - lo
    /\ \A j \in 1..(hi - lo) : text[j] = CharOf(Byte(data, lo + j - 1))

\* Offsets at or after offset 5 that hold 0x00.
NullsFrom5(data) == {k \in 5..(Len(data) - 1) : Byte(data, k) = 0}

Least(S) == CHOOSE k \in S : \A m \in S : k <= m

Min(a, b) == IF a <= b THEN a ELSE b

\* The byte that two hexadecimal digits denote.
FromHex(digits) ==
    LET Val(d) == CHOOSE v \in 0..15 : HexDigits[v + 1] = d
    IN  16 * Val(digits[1]) + Val(digits[2])

\* C13: for every received byte string, the handshake parser gives: down with
\* "Incomplete handshake" when fewer than 5 bytes came; when byte 4 is 0x0a,
\* up with the text of the bytes from offset 5 up to the first 0x00 at or
\* after offset 5, or with a fallback message when no 0x00 follows; when
\* byte 4 is 0xff, down with the error text embedded from offset 7 on (its
\* first 60 characters); for any other byte 4, up with that byte reported in
\* hexadecimal.
C13_MysqlHandshakeParsed ==
    (ret # NoCall /\ call.recv = "ok") =>
        LET data == call.data
            r == ret[1]
        IN  /\ ~r.raised
            /\ Len(data) < 5 =>
                   /\ ~r.up
                   /\ r.message = Message("Incomplete handshake", << >>)
            /\ (Len(data) >= 5 /\ Byte(data, 4) = 10) =>
                   /\ r.up
                   /\ IF NullsFrom5(data) # {}
                      THEN /\ r.message.text = "MySQL/MariaDB"
                           /\ IsTextOf(r.message.arg, data, 5,
                                       Least(NullsFrom5(data)))
                      ELSE r.message.text = "MySQL handshake OK (version unreadable)"
            /\ (Len(data) >= 5 /\ Byte(data, 4) = 255) =>
                   /\ ~r.up
                   /\ r.message.text = "MySQL error"
                   /\ IF Len(data) <= 7 THEN r.message.arg = << >>
                      ELSE IsTextOf(r.message.arg, data, 7,
                                    7 + Min(Len(data) - 7, ERR_TEXT_MAX))
            /\ (Len(data) >= 5 /\ Byte(data, 4) \notin {10, 255}) =>
                   /\ r.up
                   /\ r.message.text = "DB port open (proto byte=0x"
                   /\ FromHex(r.message.arg) = Byte(data, 4)

\* A handshake of full length was parsed: 0x00 stands in the packet header,
\* byte 4 is 0x0a, the version is "5" and bytes follow its terminator.
C13_Witness ==
    /\ ret # NoCall
    /\ call.recv = "ok"
    /\ Len(call.data) = MaxData
    /\ Byte(call.data, 1) = 0
    /\ Byte(call.data, 4) = 10
    /\ Byte(call.data, 5) = 53
    /\ Byte(call.data, 6) = 0
    /\ ret[1] = Returned(TRUE, Message("MySQL/MariaDB", << 53 >>))

\* ---------------------------------------------------------- _dns_raw_udp
\* Longest DNS response that is walked (s.recvfrom(512) returns at most 512
\* bytes): the header and the first bytes of what follows it.
MaxResponse == 14

\* Line 229: a DNS header has 12 bytes.
DNS_HEADER_LEN == 12

\* What follows the header, shortened to the last byte of an address: the
\* four bytes 10, 0, 0, x of an A record are held as x.
AnswerBytes == {1, 2}

\* expected_ip: None, or the address 10.0.0.x held as x.
ExpectedIps == {None} \cup AnswerBytes

\* A response: the transaction id 0xabcd, the flag byte 0x81, byte 3 (RA, Z
\* and RCODE), the four counts, and the answer.
Packet(byte3, answer) ==
    << 171, 205, 129, byte3, 0, 1, 0, 1, 0, 0, 0, 0 >> \o answer

DnsResponses ==
    {Take(Packet(b, a), n) :
        b \in 0..255,
        a \in UNION {[1..m -> AnswerBytes] : m \in 0..(MaxResponse - DNS_HEADER_LEN)},
        n \in 0..MaxResponse}

\* One raw query: the datagram recvfrom returns or the exception raised on
\* the way (by the encoding of the query, sendto or recvfrom), and the
\* expected_ip argument.
DnsCalls ==
    {[recv |-> "ok", response |-> r, expected_ip |-> ip] :
        r \in DnsResponses, ip \in ExpectedIps}
    \cup {[recv |-> e, response |-> << >>, expected_ip |-> ip] :
        e \in {"socket.timeout", "Exception"}, ip \in ExpectedIps}

\* a & b of Python, for a, b >= 0.
RECURSIVE BitAnd(_, _)
BitAnd(a, b) ==
    IF a = 0 \/ b = 0 THEN 0
    ELSE (a % 2) * (b % 2) + 2 * BitAnd(a \div 2, b \div 2)

\* Mutant: the answer is compared with expected_ip, as _dns_dnspython does.
DnsRawParseChecksAnswer(c) ==
    IF Len(c.response) < DNS_HEADER_LEN
    THEN Returned(FALSE, Message("Short DNS response", << >>))
    ELSE LET rcode == BitAnd(Byte(c.response, 3), 15) IN
         IF rcode = 0
         THEN IF c.expected_ip # None
                 /\ \A k \in DNS_HEADER_LEN..(Len(c.response) - 1) :
                        Byte(c.response, k) # c.expected_ip
              THEN Returned(FALSE, Message("Expected", c.expected_ip))
              ELSE Returned(TRUE, Message("DNS query OK (NOERROR)", << >>))
         ELSE Returned(FALSE, Message("DNS RCODE", rcode))

\* Lines 229-234: the verdict on the datagram received.
DnsRawParse(c) ==
    IF Len(c.response) < DNS_HEADER_LEN
    THEN Returned(FALSE, Message("Short DNS response", << >>))
    ELSE LET rcode == BitAnd(Byte(c.response, 3), 15) IN
         IF rcode = 0
         THEN Returned(TRUE, Message("DNS query OK (NOERROR)", << >>))
         ELSE Returned(FALSE, Message("DNS RCODE", rcode))

\* Lines 203-238 of _dns_raw_udp.
DnsRawUdp(c) ==
    CASE c.recv = "ok" -> DnsRawParse(c)
      [] c.recv = "socket.timeout" ->
             Returned(FALSE, Message("DNS query timed out", << >>))
      [] OTHER -> Returned(FALSE, Message("DNS raw query error", << >>))

\* _dns_raw_udp is called once on a query drawn from DnsCalls.
DnsInit == EngineInit /\ opc = "I161" /\ call \in DnsCalls /\ ret = NoCall

DnsQuery ==
    /\ ret = NoCall
    /\ ret' = << DnsRawUdp(call) >>
    /\ UNCHANGED << state, lock, now, db, txn, schedVars, obsVars, call, heap >>

DnsNext == DnsQuery

DnsSpec == DnsInit /\ [][DnsNext]_vars

\* C14: the verdict of the raw-UDP fallback on a received response is a
\* function of the length of the response and of the low 4 bits of its
\* byte 3 alone: fewer than 12 bytes give down with "Short DNS response",
\* rcode 0 gives up, rcode 1..15 gives down with the code in the message;
\* expected_ip and the bytes after the header have no part in it.
C14_DnsVerdictFromRcode ==
    (ret # NoCall /\ call.recv = "ok") =>
        LET rcode == Byte(call.response, 3) % 16 IN
        ret[1] =
            IF Len(call.response) < 12
            THEN Returned(FALSE, Message("Short DNS response", << >>))
            ELSE IF rcode = 0
            THEN Returned(TRUE, Message("DNS query OK (NOERROR)", << >>))
            ELSE Returned(FALSE, Message("DNS RCODE", rcode))

\* A response with RA set and rcode 0 whose answer holds 10.0.0.1 came for a
\* query that expected 10.0.0.2, and the verdict is up.
C14_Witness ==
    /\ ret # NoCall
    /\ call.recv = "ok"
    /\ Len(call.response) = MaxResponse
    /\ Byte(call.response, 3) = 128
    /\ \A k \in DNS_HEADER_LEN..(MaxResponse - 1) : Byte(call.response, k) = 1
    /\ call.expected_ip = 2
    /\ ret[1].up

\* ------------------------------------- run_check over any service list
\* Longest service list that is walked.
MaxListed == 3

\* The check types run_check knows (lines 254-272).
KnownTypes == {"tcp", "http", "ftp", "smtp", "banner", "mysql", "dns"}

\* Check types a service definition is given here: two that run_check knows
\* and two that it does not (the comparison of line 254 is case-sensitive).
ListedTypes == {"tcp", "mysql", "TCP", "icmp"}

\* What the probed host does: as Outcomes, and a refused connection.
HostOutcomes == Outcomes \cup {"refused"}

ListedIds == << "s1", "s2", "s3", "s4", "s5" >>

\* Service lists of up to MaxListed well-formed definitions, 50 points each.
ServiceLists ==
    UNION {{[k \in 1..n |->
                [id |-> ListedIds[k], points |-> 50, check_type |-> t[k]]] :
            t \in [1..n -> ListedTypes]} : n \in 0..MaxListed}

\* The loop of _run_one_round (lines 54-69) is run over a list drawn from
\* ServiceLists, held in `call`.
DispatchInit ==
    EngineInit /\ opc = "I161" /\ call \in ServiceLists /\ ret = NoCall

\* Lines 54-69: one iteration of "for svc in config.SERVICES".
DispatchService ==
    /\ ret = NoCall
    /\ i <= Len(call)
    /\ \E out \in HostOutcomes :
         LET svc == call[i]
         IN  /\ round_score' =
                  Accumulate(round_score, Result(svc, Verdict(svc, out)).points_earned)
             /\ results' = Record(results, svc, out)
             /\ probe' = Append(probe, out)
    /\ i' = i + 1
    /\ UNCHANGED << state, lock, now, db, txn, pc, rounds, exc, remaining,
                    round_id, obsVars, call, ret, heap >>

\* The list is exhausted: the loop ends with `results`.
DispatchDone ==
    /\ ret = NoCall
    /\ i > Len(call)
    /\ ret' = << results >>
    /\ UNCHANGED << state, lock, now, db, txn, schedVars, obsVars, call, heap >>

DispatchNext == DispatchService \/ DispatchDone

DispatchSpec == DispatchInit /\ [][DispatchNext]_vars

\* C15: a service whose check_type run_check does not know gets the verdict
\* down with the "Unknown check type" diagnostic and no points, whatever its
\* host does (no checker's verdict or exception is used), and the loop goes
\* on: when it ends, every service of the list has its result, in order.
C15_UnknownTypeIsDown ==
    /\ Len(results) = i - 1
    /\ \A k \in 1..Len(results) :
          /\ results[k].service_id = call[k].id
          /\ call[k].check_type \notin KnownTypes =>
                results[k] = [service_id |-> call[k].id, up |-> FALSE,
                              points_earned |-> 0,
                              message |-> "Unknown check type"]
    /\ ret # NoCall => Len(ret[1]) = Len(call)

\* The loop has ended on a list whose first service has an unknown check
\* type and a host that answers, and whose next service was found up.
C15_Witness ==
    /\ ret # NoCall
    /\ Len(call) = MaxListed
    /\ call[1].check_type = "TCP"
    /\ probe[1] = "ok"
    /\ ~ret[1][1].up
    /\ call[2].check_type = "tcp"
    /\ ret[1][2].up
    /\ call[3].check_type = "icmp"
    /\ probe[3] = "fault"
    /\ ret[1][3].message = "Unknown check type"

\* ------------------------------------------- database.py: round history
\* Number of save_round calls that are followed, and the largest limit a
\* history query is given.
MaxSaved == 3
MaxLimit == 4

\* A query of the round history and its limit argument.
QueryCalls ==
    [fn : {"get_recent_rounds", "get_score_history"}, limit : (-1)..MaxLimit]

\* Where the scheduler thread stands when no save_round call is under way:
\* before the first one, after one that returned, after one that raised.
Outside == {"L97", "L81", "L106"}

\* The results of a round in which every host did `out`.
RECURSIVE RoundResults(_, _)
RoundResults(n, out) ==
    IF n = 0 THEN << >> ELSE Record(RoundResults(n - 1, out), SERVICES[n], out)

\* save_round is called up to MaxSaved times and returns or raises; between
\* two calls one query, drawn from QueryCalls, is asked.
HistoryInit == EngineInit /\ opc = "I161" /\ call \in QueryCalls /\ ret = NoCall

\* app.py line 78: save_round(results, round_score, MAX_SCORE_PER_ROUND) is
\* called, at least a second after the call before.  `probe` keeps the
\* (timestamp, round_score, max_score) of the calls that returned so far.
CallSaveRound ==
    /\ pc \in Outside
    /\ rounds < MaxSaved
    /\ rounds' = rounds + 1
    /\ \E out \in Outcomes :
         LET rs == RoundResults(Len(SERVICES), out)
         IN  /\ results' = rs
             /\ round_score' = SumEarnedSeq(rs)
    /\ probe' = IF pc = "L81"
                THEN Append(probe, [timestamp |-> now, round_score |-> round_score,
                                    max_score |-> MAX_SCORE_PER_ROUND])
                ELSE probe
    /\ now' = now + 1
    /\ ret' = NoCall
    /\ Goto("L78")
    /\ UNCHANGED << state, db, txn, i, exc, remaining, round_id, obsVars, call, heap >>

\* The query held in `call` is run on the committed rows.
QueryHistory ==
    /\ pc \in Outside
    /\ ret' = << IF call.fn = "get_recent_rounds"
                 THEN get_recent_rounds(call.limit)
                 ELSE get_score_history(call.limit) >>
    /\ UNCHANGED << state, lock, now, db, txn, schedVars, obsVars, call, heap >>

HistoryNext ==
    \/ CallSaveRound
    \/ SaveHeader
    \/ SaveRows
    \/ SaveCommit
    \/ QueryHistory

HistorySpec == HistoryInit /\ [][HistoryNext]_vars

\* The (timestamp, round_score, max_score) of the save_round calls that
\* returned, oldest first.
Saved ==
    IF pc = "L81"
    THEN Append(probe, [timestamp |-> now, round_score |-> round_score,
                        max_score |-> MAX_SCORE_PER_ROUND])
    ELSE probe

\* The last m entries of a sequence, in its order.
LastOf(seq, m) == SubSeq(seq, Len(seq) - m + 1, Len(seq))

\* C16: after any sequence of save_round calls that returned or raised, with
\* n of them returned, get_score_history(limit) is the min(limit, n) rounds
\* saved last, oldest first, and get_recent_rounds(limit) is the same rounds
\* newest first; for equal limits one is the reverse of the other.
C16_HistoryIsLastRounds ==
    pc \in Outside =>
        LET n == Len(Saved) IN
        /\ get_round_count = n
        /\ \A limit \in 0..MaxLimit :
              /\ get_score_history(limit) = LastOf(Saved, Min(limit, n))
              /\ [k \in 1..Len(get_recent_rounds(limit)) |->
                     ScoreColumns(get_recent_rounds(limit)[k])]
                    = Reverse(get_score_history(limit))
        /\ (ret # NoCall /\ call.limit >= 0) =>
              /\ Len(ret[1]) = Min(call.limit, n)
              /\ \A k \in 1..Len(ret[1]) :
                    ScoreColumns(ret[1][k]) =
                        IF call.fn = "get_score_history"
                        THEN Saved[n - Len(ret[1]) + k]
                        ELSE Saved[n - k + 1]

\* MaxSaved calls of save_round, one of which raised and two of which saved
\* rounds of different scores, then get_score_history(1): it returned the
\* round saved last alone.
C16_Witness ==
    /\ pc = "L81"
    /\ rounds = MaxSaved
    /\ Len(Saved) = MaxSaved - 1
    /\ Saved[1].round_score # Saved[2].round_score
    /\ call = [fn |-> "get_score_history", limit |-> 1]
    /\ ret = << << Saved[2] >> >>

\* --------------------------------------------- claims on the scheduler
\* The round of result list rs and score `score` is the last one of the
\* committed log: its header and one row per result.
Persisted(rs, score) ==
    LET n == Len(db.check_rounds) IN
    /\ txn = NoRows
    /\ n >= 1
    /\ db.check_rounds[n].id = round_id
    /\ db.check_rounds[n].round_score = score
    /\ Len(rs) = Len(SERVICES)
    /\ \A k \in 1..Len(rs) :
          \E j \in 1..Len(db.service_checks) :
              LET row == db.service_checks[j]
              IN  /\ row.round_id = round_id
                  /\ row.service_id = rs[k].service_id
                  /\ row.up = UpInt(rs[k].up)
                  /\ row.points_earned = rs[k].points_earned

\* A statement of the publishing block (lines 81-84) is executed.
PublishStep == pc \in {"L81", "L82", "L83", "L84"} /\ pc' # pc

\* The countdown is set to CHECK_INTERVAL.
CountdownSet ==
    state'.next_check_in = CHECK_INTERVAL /\ state.next_check_in # CHECK_INTERVAL

\* C17: the snapshot fields change in the publishing block only; every
\* statement of that block runs with the round persisted (header and all
\* rows committed) and the flag still set, under one holding of the lock
\* that ends with the statement clearing is_checking; the countdown is set
\* to CHECK_INTERVAL only with the flag clear and, unless save_round raised,
\* with the persisted round published.
C17_PersistPublishCountdown ==
    /\ [](pc \in {"L82", "L83", "L84"} => lock = "sched")
    /\ [][ /\ ( \/ state'.last_check_time # state.last_check_time
                \/ state'.round_score # state.round_score
                \/ state'.current_results # state.current_results ) => PublishStep
           /\ PublishStep =>
                /\ Persisted(results, round_score)
                /\ state.is_checking
                /\ lock' = IF pc = "L84" THEN Free ELSE "sched"
                /\ state'.is_checking = (pc # "L84")
           /\ (PublishStep /\ pc = "L84") =>
                /\ state'.last_check_time = now
                /\ state'.round_score = round_score
                /\ state'.current_results = AsMap(results)
           /\ CountdownSet =>
                /\ ~state.is_checking
                /\ exc # "save_round" =>
                      /\ Persisted(results, round_score)
                      /\ state.current_results = AsMap(results)
                      /\ state.round_score = round_score
         ]_vars

\* A round with a service up was persisted and published, and the countdown
\* has just been set to CHECK_INTERVAL.
C17_Witness ==
    /\ pc = "L112"
    /\ remaining = CHECK_INTERVAL
    /\ state.next_check_in = CHECK_INTERVAL
    /\ exc = NoExc
    /\ ~state.is_checking
    /\ Persisted(results, round_score)
    /\ state.current_results = AsMap(results)
    /\ round_score > 0

\* Seconds slept since the countdown of the current round began.
Elapsed == now - (1 + (rounds - 1) * CHECK_INTERVAL)

\* C18: after a round next_check_in shows CHECK_INTERVAL, CHECK_INTERVAL-1,
\* ..., 1, 0 in that order, one second apart: it changes from 0 to
\* CHECK_INTERVAL, with the flag clear, or goes down by one, and a second is
\* slept after each value but 0.  A round begins only with next_check_in at
\* 0, the first one at once and each later one a whole interval after the
\* round before, and next_check_in is 0 while is_checking is true.
C18_CountdownStepsToZero ==
    /\ [](/\ state.next_check_in \in 0..CHECK_INTERVAL
          /\ state.is_checking => state.next_check_in = 0
          /\ pc \notin {"L111", "L112", "L114"} => state.next_check_in = 0
          /\ pc = "L112" =>
                /\ state.next_check_in = remaining
                /\ Elapsed = CHECK_INTERVAL - remaining
          /\ pc = "L111" =>
                /\ state.next_check_in =
                      IF remaining = CHECK_INTERVAL THEN 0 ELSE remaining + 1
                /\ Elapsed = CHECK_INTERVAL - remaining
          /\ pc = "L114" =>
                /\ state.next_check_in = 1
                /\ Elapsed = CHECK_INTERVAL)
    /\ [][ /\ state'.next_check_in # state.next_check_in =>
                \/ /\ state.next_check_in = 0
                   /\ state'.next_check_in = CHECK_INTERVAL
                   /\ ~state.is_checking
                \/ state'.next_check_in = state.next_check_in - 1
           /\ now' # now =>
                /\ now' = now + 1
                /\ state.next_check_in >= 1
           /\ (state'.is_checking /\ ~state.is_checking) =>
                /\ state.next_check_in = 0
                /\ now = 1 + (rounds - 1) * CHECK_INTERVAL
         ]_vars

\* The countdown of a round has shown every value and stands at 0 again,
\* CHECK_INTERVAL seconds after it began.
C18_Witness ==
    /\ pc = "L97"
    /\ rounds >= 1
    /\ state.next_check_in = 0
    /\ ~state.is_checking
    /\ Elapsed = CHECK_INTERVAL

\* Labels of a round after its loop over the services.
AfterLoop == {"L78", "D59", "D68", "L81", "L82", "L83", "L84", "L90"}

\* C19: in a round run_check is invoked once per configured service, in
\* configuration order, by the one scheduler thread: the invocations of the
\* round so far are those of services 1..i-1, one each, whatever their
\* verdict or fault; each invocation is a step of the loop of a round in
\* progress and adds the result of the next service; the loop is left after
\* the last service; and the invocations of a round begin only after the
\* round before has ended and its countdown has run out.
C19_OneCheckPerService ==
    /\ [](/\ Len(probe) = Len(results)
          /\ Len(probe) <= Len(SERVICES)
          /\ \A k \in 1..Len(results) : results[k].service_id = SERVICES[k].id
          /\ \A k, j \in 1..Len(results) :
                results[k].service_id = results[j].service_id => k = j
          /\ pc = "L56" => (Len(probe) = i - 1 /\ i <= Len(SERVICES))
          /\ pc \in AfterLoop => Len(probe) = Len(SERVICES))
    /\ [][ /\ probe' # probe =>
                \/ pc = "L51" /\ probe' = << >>
                \/ /\ pc = "L56"
                   /\ state.is_checking /\ state.next_check_in = 0
                   /\ \E out \in Outcomes : probe' = Append(probe, out)
                   /\ Len(results') = Len(results) + 1
                   /\ results'[Len(results')].service_id
                         = SERVICES[Len(probe) + 1].id
                   /\ SubSeq(results', 1, Len(results)) = results
           /\ (pc = "L56" /\ pc' # pc) => pc' = "L78" /\ Len(probe') = Len(SERVICES)
           /\ (pc = "L51" /\ pc' # pc) =>
                /\ state.is_checking
                /\ now = 1 + (rounds - 1) * CHECK_INTERVAL
         ]_vars

\* A round has left its loop: one invocation per service, the first found
\* down and the second raising, neither repeated.
C19_Witness ==
    /\ pc = "L78"
    /\ Len(probe) = Len(SERVICES)
    /\ probe[1] = "fault" /\ ~results[1].up
    /\ probe[2] = "fault" /\ results[2].message = "Check exception"
    /\ results[Len(SERVICES)].service_id = SERVICES[Len(SERVICES)].id

\* C20: begin-round changes is_checking, to true, and no other field of the
\* shared state; a countdown tick (lines 111 and 114) changes next_check_in
\* and no other field; a step of an observer (index with
\* _build_services_display, api_status, api_history) changes no field of
\* the shared state, nor the log.
C20_WritersTouchTheirFieldOnly ==
    [][ /\ (pc = "L99" /\ pc' # pc) =>
             state' = [state EXCEPT !.is_checking = TRUE]
        /\ (pc = "L111" /\ pc' # pc) =>
             state' = [state EXCEPT !.next_check_in = remaining]
        /\ (pc = "L114" /\ pc' # pc) =>
             state' = [state EXCEPT !.next_check_in = 0]
        /\ (state'.is_checking /\ ~state.is_checking) => pc = "L99"
        /\ state'.next_check_in # state.next_check_in => pc \in {"L111", "L114"}
        /\ obsVars' # obsVars => (state' = state /\ db' = db /\ txn' = txn)
      ]_vars

\* A tick has been executed after a published round, with the round's
\* snapshot intact, and api_history has answered with that round.
C20_Witness ==
    /\ pc = "L112"
    /\ state.next_check_in = remaining
    /\ state.last_check_time # None
    /\ state.round_score = round_score /\ round_score > 0
    /\ state.current_results = AsMap(results)
    /\ opc = "H221"
    /\ Len(response) = 1
    /\ response[1].round_score = round_score

\* ------------------------------------------------------------- liveness
\* The scheduler thread and the request thread, the scheduler thread being
\* weakly fair: a statement of it that stays executable is executed.  Calls
\* of checkers and of the database return or raise (each is a step), and
\* time.sleep(1) returns.
FairSpec == Init /\ [][Next]_vars /\ WF_vars(Scheduler)

\* Number of rounds begun: line 99 has been executed that many times.
Begun == IF pc = "L99" THEN rounds - 1 ELSE rounds

\* Every round that begins ends, every idle phase leads to the next round,
\* and every round of the MaxRounds followed begins.
RoundsGoOn ==
    /\ state.is_checking ~> ~state.is_checking
    /\ \A r \in 0..(MaxRounds - 1) :
          (~state.is_checking /\ Begun = r) ~> (state.is_checking /\ Begun = r + 1)
    /\ \A r \in 1..MaxRounds : <>(state.is_checking /\ Begun = r)

MaxPublished == 2

\* Line 40: the dict current_results refers to before the first round.
INITIAL_RESULTS == 1

\* The address a dict created now gets.
NewAddress == Len(heap) + 1

\* The dicts a dict of references refers to.
Deref(refs) == [key \in DOMAIN refs |-> heap[refs[key]]]

HeapInit ==
    /\ heap = << EmptyMap >>
    /\ state = [last_check_time |-> None, next_check_in |-> 0,
                current_results |-> INITIAL_RESULTS, round_score |-> 0,
                is_checking |-> FALSE]
    /\ lock = Free
    /\ now = 1
    /\ db = NoRows
    /\ txn = NoRows
    /\ pc = "L97"
    /\ rounds = 0
    /\ i = 1
    /\ results = << >>
    /\ round_score = 0
    /\ probe = << >>
    /\ exc = NoExc
    /\ remaining = 0
    /\ round_id = 0
    /\ opc \in {"I161", "A191", "H220"}
    /\ state_snapshot = EmptyMap
    /\ results_copy = EmptyMap
    /\ stats = EmptyMap
    /\ response = EmptyMap
    /\ call = NoCall
    /\ ret = NoCall

\* Lines 97-99 of _scheduler_loop: the next iteration of "while True",
\* MaxPublished rounds being followed.
LoopHeadLonger ==
    /\ At("L97")
    /\ rounds < MaxPublished
    /\ rounds' = rounds + 1
    /\ Goto("L99")
    /\ UNCHANGED << state, now, db, txn, i, results, round_score,
                    probe, exc, remaining, round_id, obsVars, callVars, heap >>

\* Lines 54-69: one iteration of "for svc in config.SERVICES"; line 63
\* creates a dict and line 69 appends the reference to it.
HeapCheckService ==
    /\ At("L56")
    /\ \E out \in Outcomes :
         LET svc == SERVICES[i]
             result == Result(svc, Verdict(svc, out))
         IN  /\ round_score' = Accumulate(round_score, result.points_earned)
             /\ heap' = Append(heap, result)
             /\ probe' = Append(probe, out)
    /\ results' = Append(results, NewAddress)
    /\ i' = i + 1
    /\ Goto(IF i < Len(SERVICES) THEN "L56" ELSE "L78")
    /\ UNCHANGED << state, now, db, txn, rounds, exc, remaining,
                    round_id, obsVars, callVars >>

\* Line 78: save_round reads the dicts of `results` (database.py 59-67) and
\* writes none of them; it returns or raises.  The log is not followed here.
HeapSaveRound ==
    /\ At("L78")
    /\ \/ /\ Goto("L81")
          /\ UNCHANGED exc
       \/ /\ exc' = "save_round"
          /\ Goto(OnRoundException)
    /\ UNCHANGED << state, now, db, txn, rounds, i, results, round_score,
                    probe, remaining, round_id, obsVars, callVars, heap >>

\* Line 83: {r["service_id"]: r for r in results}, the values being the
\* references held in `results` (a later entry wins).
RefMap(refs) ==
    [sid \in {heap[refs[k]].service_id : k \in 1..Len(refs)} |->
        refs[CHOOSE k \in 1..Len(refs) :
                /\ heap[refs[k]].service_id = sid
                /\ \A j \in (k+1)..Len(refs) : heap[refs[j]].service_id # sid]]

\* Mutant: the dict current_results refers to is emptied and filled again.
HeapPublishResultsInPlace ==
    /\ At("L83")
    /\ heap' = [heap EXCEPT ![state.current_results] = RefMap(results)]
    /\ Goto("L84")
    /\ UNCHANGED << state, now, db, txn, rounds, i, results, round_score,
                    probe, exc, remaining, round_id, obsVars, callVars >>

\* Line 83: the comprehension creates a dict, and current_results refers to
\* it from now on.
HeapPublishResults ==
    /\ At("L83")
    /\ heap' = Append(heap, RefMap(results))
    /\ state' = [state EXCEPT !.current_results = NewAddress]
    /\ Goto("L84")
    /\ UNCHANGED << now, db, txn, rounds, i, results, round_score,
                    probe, exc, remaining, round_id, obsVars, callVars >>

HeapScheduler ==
    \/ LoopHeadLonger
    \/ BeginRound
    \/ StartRound
    \/ HeapCheckService
    \/ HeapSaveRound
    \/ PublishTime
    \/ PublishScore
    \/ HeapPublishResults
    \/ PublishDone
    \/ RoundLog
    \/ RoundFailed
    \/ CountdownStart
    \/ Tick
    \/ Sleep
    \/ CountdownEnd

\* Lines 127-128 of _build_services_display: dict(...) copies the
\* references of the dict current_results refers to.
HeapDisplayResults ==
    /\ ObsAt("I128")
    /\ results_copy' = heap[state.current_results]
    /\ ObsGoto("I130")
    /\ UNCHANGED << state, now, db, txn, schedVars, callVars, heap,
                    state_snapshot, stats, response >>

\* Lines 130-184: last.get(...) reads the dict `last` refers to.
HeapIndexRender ==
    /\ ObsAt("I130")
    /\ response' =
         [services |-> Display(Deref(results_copy), stats),
          last_check_time |-> state_snapshot.last_check_time,
          next_check_in |-> state_snapshot.next_check_in,
          is_checking |-> state_snapshot.is_checking,
          round_score |-> state_snapshot.round_score,
          max_score_per_round |-> MAX_SCORE_PER_ROUND,
          cumulative_score |-> get_cumulative_score,
          round_count |-> get_round_count]
    /\ ObsGoto("I184")
    /\ UNCHANGED << state, now, db, txn, schedVars, callVars, heap,
                    state_snapshot, results_copy, stats >>

\* Line 192 of api_status.
HeapStatusResults ==
    /\ ObsAt("A192")
    /\ results_copy' = heap[state.current_results]
    /\ ObsGoto("A194")
    /\ UNCHANGED << state, now, db, txn, schedVars, callVars, heap,
                    state_snapshot, stats, response >>

\* Lines 194-214.
HeapStatusRender ==
    /\ ObsAt("A194")
    /\ response' =
         [services |-> ServicesOut(Deref(results_copy)),
          last_check_time |-> state_snapshot.last_check_time,
          next_check_in |-> state_snapshot.next_check_in,
          is_checking |-> state_snapshot.is_checking,
          round_score |-> state_snapshot.round_score,
          max_score_per_round |-> MAX_SCORE_PER_ROUND,
          cumulative_score |-> get_cumulative_score,
          round_count |-> get_round_count]
    /\ ObsGoto("A214")
    /\ UNCHANGED << state, now, db, txn, schedVars, callVars, heap,
                    state_snapshot, results_copy, stats >>

HeapObserver ==
    \/ IndexSnapshot
    \/ DisplayStats
    \/ HeapDisplayResults
    \/ HeapIndexRender
    \/ StatusSnapshot
    \/ HeapStatusResults
    \/ HeapStatusRender
    \/ ApiHistory
    \/ Respond

HeapNext == HeapScheduler \/ HeapObserver

\* The scheduler thread and the request thread, dicts being shared by
\* reference.
HeapSpec == HeapInit /\ [][HeapNext]_vars

\* The handler holds a snapshot: the copy of _state made on line 161 or 191.
HasSnapshot == "current_results" \in DOMAIN state_snapshot

\* All the handler can read through its locals: its copy of _state, the
\* dict that copy's current_results refers to with the entries behind it,
\* and the entries behind its copy of the results.
Seen ==
    [state_snapshot |-> state_snapshot,
     current_results |-> IF HasSnapshot
                         THEN Deref(heap[state_snapshot.current_results])
                         ELSE EmptyMap,
     results |-> Deref(results_copy)]

\* C22: what a request handler copied out under the lock, and every dict it
\* reaches through the copies, keeps its content over every step of the
\* scheduler thread: only the handler's own steps change what it sees.
C22_SnapshotKeepsContent == [][opc' = opc => Seen' = Seen]_vars

\* api_status has left its with block and is about to read its copies, made
\* after a round; a later round has been published since, under another
\* address and with another verdict for some service.
C22_Witness ==
    /\ opc = "A194"
    /\ HasSnapshot
    /\ DOMAIN results_copy # {}
    /\ state_snapshot.current_results # state.current_results
    /\ \E sid \in DOMAIN results_copy :
          heap[results_copy[sid]].up # heap[heap[state.current_results][sid]].up

\* ------------------------------------------------ the log and the state
\* The scheduler thread alone, MaxPublished rounds being followed.
LogScheduler ==
    \/ LoopHeadLonger
    \/ BeginRound
    \/ StartRound
    \/ CheckService
    \/ SaveHeader
    \/ SaveRows
    \/ SaveCommit
    \/ PublishTime
    \/ PublishScore
    \/ PublishResults
    \/ PublishDone
    \/ RoundLog
    \/ RoundFailed
    \/ CountdownStart
    \/ Tick
    \/ Sleep
    \/ CountdownEnd

\* The log is empty at the start (Init has db = NoRows).
LogSpec == Init /\ [][LogScheduler]_vars

\* A round has been published: line 81 has run.
Published == state.last_check_time # None

\* The newest round of the log, as get_recent_rounds(1) returns it.
NewestRound == get_recent_rounds(1)

\* C23: while is_checking is false and a round has been published, the
\* log holds a round, the published round_score is that of the newest round
\* of the log, and the published results have, service by service, the up
\* and points_earned of get_last_round_results().
C23_StateAgreesWithLog ==
    (~state.is_checking /\ Published) =>
        LET newest == NewestRound
            logged == get_last_round_results
        IN  /\ newest # << >>
            /\ state.round_score = newest[1].round_score
            /\ DOMAIN state.current_results = DOMAIN logged
            /\ \A sid \in DOMAIN state.current_results :
                  /\ UpInt(state.current_results[sid].up) = logged[sid].up
                  /\ state.current_results[sid].points_earned
                        = logged[sid].points_earned

\* Round 1 was saved and published; save_round raised in round 2, whose
\* results differ from those of round 1, and the scheduler is idle again.
C23_Witness ==
    /\ rounds = 2
    /\ pc = "L109"
    /\ exc = "save_round"
    /\ ~state.is_checking
    /\ Published
    /\ Len(db.check_rounds) = 1
    /\ Len(results) = Len(SERVICES)
    /\ AsMap(results) # state.current_results
    /\ round_score # state.round_score

\* hist.get(field, 0) of lines 137-147: the aggregate of a service in what
\* get_service_stats() returned, 0 for a service it has no row for.
Aggregate(st, sid, field) == GetField(st, sid, field, 0)

RECURSIVE SumTotalPoints(_, _)
\* total_points summed over the first n configured services.
SumTotalPoints(st, n) ==
    IF n = 0 THEN 0
    ELSE SumTotalPoints(st, n - 1) + Aggregate(st, SERVICES[n].id, "total_points")

\* C24: in every state of the log, for every configured service
\* total_checks is get_round_count(), up_count is at most total_checks and
\* total_points is up_count times the service's points, and the total_points
\* of all services add up to get_cumulative_score().
C24_AggregatesAgree ==
    LET st == get_service_stats
    IN  /\ \A k \in 1..Len(SERVICES) :
              LET sid == SERVICES[k].id
              IN  /\ Aggregate(st, sid, "total_checks") = get_round_count
                  /\ Aggregate(st, sid, "up_count")
                        <= Aggregate(st, sid, "total_checks")
                  /\ Aggregate(st, sid, "total_points")
                        = Aggregate(st, sid, "up_count") * SERVICES[k].points
        /\ SumTotalPoints(st, Len(SERVICES)) = get_cumulative_score

\* Two rounds are in the log, with a service that was up in one of them and
\* down in the other, and the scores of the two rounds differ.
C24_Witness ==
    /\ get_round_count = 2
    /\ \E k \in 1..Len(SERVICES) :
          /\ Aggregate(get_service_stats, SERVICES[k].id, "total_checks") = 2
          /\ Aggregate(get_service_stats, SERVICES[k].id, "up_count") = 1
    /\ get_cumulative_score > 0
    /\ db.check_rounds[1].round_score # db.check_rounds[2].round_score

====
